---- MODULE Spec2Model ----
(***************************************************************************)
(* Order / PositionI / Broker of gym_trading/utils/mm_broker.py: the       *)
(* order-queue execution and inventory-netting engine.                     *)
(*                                                                         *)
(* Numbers.  Python floats are modelled as exact rationals <<n, d>> with   *)
(* d > 0 and gcd(n, d) = 1, so that equality of values is equality of      *)
(* tuples.  round(x, 4) is modelled by what it does (Round4): the nearest  *)
(* multiple of 10^-4, ties to even.  Volumes (executed, queue_ahead and    *)
(* the traded volumes) are whole numbers.  The value -0.00000000001 that   *)
(* PositionI.flatten_inventory returns for an empty inventory does not fit *)
(* a 32-bit fraction, so a returned amount is a pair [q, eps] standing for *)
(* q + eps * 10^-11.                                                       *)
(***************************************************************************)
EXTENDS Integers, Sequences, FiniteSets, TLC

\* ---------------------------------------------------------------- bounds
\* Order construction stops once Order._id has reached MaxOrders.
MaxOrders == 2
\* The Broker is built with max_position in 1 .. MaxPosition.
MaxPosition == 2
\* the most rows the data of an environment has
MaxRows == 8

\* ------------------------------------------------------------- rationals
Abs(x) == IF x < 0 THEN -x ELSE x

RECURSIVE Gcd(_, _)
Gcd(a, b) == IF b = 0 THEN a ELSE Gcd(b, a % b)

\* The fraction n / d (d # 0) in lowest terms with a positive denominator.
Rat(n, d) ==
    LET g == Gcd(Abs(n), Abs(d))
        s == IF d < 0 THEN -1 ELSE 1
    IN  <<(s * n) \div g, (s * d) \div g>>

RInt(k) == <<k, 1>>
RZero == <<0, 1>>
RAdd(a, b) == Rat(a[1] * b[2] + b[1] * a[2], a[2] * b[2])
RSub(a, b) == Rat(a[1] * b[2] - b[1] * a[2], a[2] * b[2])
RMul(a, b) == Rat(a[1] * b[1], a[2] * b[2])
RDiv(a, b) == Rat(a[1] * b[2], a[2] * b[1])
RLe(a, b) == a[1] * b[2] <= b[1] * a[2]

\* A returned amount q + eps * 10^-11.
Num(q) == [q |-> q, eps |-> RZero]
NumZero == Num(RZero)
NumAdd(x, y) == [q |-> RAdd(x.q, y.q), eps |-> RAdd(x.eps, y.eps)]
NumDiv(x, r) == [q |-> RDiv(x.q, r), eps |-> RDiv(x.eps, r)]

\* ------------------------------------------------------------- constants
\* Order._size
Order_size == 1000
\* the 4 of round(self.average_exectution_price, 4)
RoundDigits == 4
\* configurations.configs.BROKER_FEE, the fee per closing trade
BROKER_FEE == <<3, 1000>>
\* Broker.reward_scale = BROKER_FEE * 2.
reward_scale == RMul(BROKER_FEE, RInt(2))
\* the value PositionI.flatten_inventory returns for an empty inventory
EmptyFlatten == [q |-> RZero, eps |-> RInt(-1)]

\* round(x, 4): float round, nearest multiple of 10^-RoundDigits, ties to even
Round4(x) ==
    LET s == 10 ^ RoundDigits
        f == (x[1] * s) \div x[2]
        r == (x[1] * s) % x[2]
        up == \/ 2 * r > x[2]
              \/ (2 * r = x[2] /\ f % 2 = 1)
    IN  Rat(IF up THEN f + 1 ELSE f, s)

\* ---------------------------------------------------------------- inputs
Sides == {"long", "short"}
\* two price levels, for order prices and for the quotes (bid <= ask)
Prices == {RInt(1), RInt(2)}
Quotes == {q \in Prices \X Prices : RLe(q[1], q[2])}
\* traded volume of one step: half a lot, or more than a lot
Volumes == {Order_size \div 2, Order_size + Order_size \div 2}
\* queue ahead of a new order: first in queue, or a lot ahead
Queues == {0, Order_size}

VARIABLES long_inventory, short_inventory, Order_id, last, env

vars == <<long_inventory, short_inventory, Order_id, last, env>>

\* ----------------------------------------------------------------- Order
\* Order.__init__; id is the value Order._id has after its increment.  The
\* slot of an inventory and an absent position are sequences of length <= 1.
Order(side, price, step, queue_ahead, id) ==
    [side |-> side, price |-> price, step |-> step, executed |-> 0,
     id |-> id, queue_ahead |-> queue_ahead, executions |-> <<>>,
     average_exectution_price |-> RInt(-1)]

is_filled(o) == o.executed >= Order_size

is_first_in_queue(o) == o.queue_ahead <= 0

\* process_executions recording the whole volume, the overflow not taken
\* back out of what the executions mapping records
process_executions_overflow_recorded(o, volume) ==
    LET executed == o.executed + volume
        overflow == IF executed >= Order_size THEN executed - Order_size ELSE 0
        _price == o.price
        executions ==
            IF _price \in DOMAIN o.executions
            THEN [o.executions EXCEPT ![_price] = @ + volume]
            ELSE [k \in DOMAIN o.executions \cup {_price} |->
                    IF k = _price THEN volume ELSE o.executions[k]]
    IN  [o EXCEPT !.executed = executed - overflow, !.executions = executions]

process_executions(o, volume) ==
    LET executed == o.executed + volume
        overflow == IF executed >= Order_size THEN executed - Order_size ELSE 0
        _price == o.price
        executions ==
            IF _price \in DOMAIN o.executions
            THEN [o.executions EXCEPT ![_price] = @ + (volume - overflow)]
            ELSE [k \in DOMAIN o.executions \cup {_price} |->
                    IF k = _price THEN volume - overflow ELSE o.executions[k]]
    IN  [o EXCEPT !.executed = executed - overflow, !.executions = executions]

\* reduce_queue_ahead without line 41: queue_ahead stays below zero
reduce_queue_ahead_not_clamped(o, executed_volume) ==
    LET queue_ahead == o.queue_ahead - executed_volume
    IN  IF queue_ahead < 0
        THEN process_executions([o EXCEPT !.queue_ahead = queue_ahead],
                                0 - queue_ahead)
        ELSE [o EXCEPT !.queue_ahead = queue_ahead]

\* reduce_queue_ahead without line 42: the volume past the queue is lost
reduce_queue_ahead_no_splash(o, executed_volume) ==
    LET queue_ahead == o.queue_ahead - executed_volume
    IN  IF queue_ahead < 0
        THEN [o EXCEPT !.queue_ahead = 0]
        ELSE [o EXCEPT !.queue_ahead = queue_ahead]

reduce_queue_ahead(o, executed_volume) ==
    LET queue_ahead == o.queue_ahead - executed_volume
    IN  IF queue_ahead < 0
        THEN process_executions([o EXCEPT !.queue_ahead = 0], 0 - queue_ahead)
        ELSE [o EXCEPT !.queue_ahead = queue_ahead]

\* total_volume of get_average_execution_price: the sum of v / k over the
\* executions whose keys are ks
RECURSIVE total_size(_, _)
total_size(ks, executions) ==
    IF ks = {} THEN RZero
    ELSE LET k == CHOOSE x \in ks : TRUE
         IN  RAdd(RDiv(RInt(executions[k]), k),
                  total_size(ks \ {k}, executions))

\* the second loop of get_average_execution_price: the sum of
\* k * ((v / k) / total_volume)
RECURSIVE weighted_price(_, _, _)
weighted_price(ks, executions, total_volume) ==
    IF ks = {} THEN RZero
    ELSE LET k == CHOOSE x \in ks : TRUE
         IN  RAdd(RMul(k, RDiv(RDiv(RInt(executions[k]), k), total_volume)),
                  weighted_price(ks \ {k}, executions, total_volume))

\* the sum of k * v over the executions whose keys are ks
RECURSIVE total_value(_, _)
total_value(ks, executions) ==
    IF ks = {} THEN RZero
    ELSE LET k == CHOOSE x \in ks : TRUE
         IN  RAdd(RMul(k, RInt(executions[k])),
                  total_value(ks \ {k}, executions))

\* get_average_execution_price as the plain volume-weighted average
get_average_execution_price_by_volume(o) ==
    [o EXCEPT !.average_exectution_price =
        Round4(RDiv(total_value(DOMAIN o.executions, o.executions),
                    RInt(o.executed)))]

\* Order.get_average_execution_price: the order with its
\* average_exectution_price set, which is also the value returned.
get_average_execution_price(o) ==
    LET total_volume == total_size(DOMAIN o.executions, o.executions)
        average == weighted_price(DOMAIN o.executions, o.executions,
                                  total_volume)
    IN  [o EXCEPT !.average_exectution_price = Round4(average)]

\* ------------------------------------------------------------- PositionI
\* PositionI.__init__ (reward_size is never read and is left out).
PositionI(side, max_position) ==
    [max_position_count |-> max_position, positions |-> <<>>, order |-> <<>>,
     realized_pnl |-> RZero, unrealized_pnl |-> RZero,
     full_inventory |-> FALSE, total_exposure |-> RZero, side |-> side,
     average_price |-> RZero, total_trade_count |-> 0]

PositionI_reset(inv) ==
    [inv EXCEPT !.positions = <<>>, !.order = <<>>, !.realized_pnl = RZero,
                !.unrealized_pnl = RZero, !.full_inventory = FALSE,
                !.total_exposure = RZero, !.average_price = RZero,
                !.total_trade_count = 0]

position_count(inv) == Len(inv.positions)

\* add_order testing position_count > max_position_count in place of the
\* full_inventory flag: an order is taken by an inventory at capacity
add_order_count_tested(inv, order) ==
    IF ~(position_count(inv) > inv.max_position_count)
    THEN IF inv.order = <<>>
         THEN [inv |-> [inv EXCEPT !.order = <<order>>], ret |-> TRUE]
         ELSE [inv |-> [inv EXCEPT !.order[1].price = order.price,
                                   !.order[1].queue_ahead = order.queue_ahead,
                                   !.order[1].id = order.id],
               ret |-> TRUE]
    ELSE [inv |-> inv, ret |-> FALSE]

\* add_order storing the order it is given in place of the resting one
add_order_replaced(inv, order) ==
    IF ~inv.full_inventory
    THEN [inv |-> [inv EXCEPT !.order = <<order>>], ret |-> TRUE]
    ELSE [inv |-> inv, ret |-> FALSE]

\* add_order without the full_inventory test
add_order_when_full(inv, order) ==
    IF inv.order = <<>>
    THEN [inv |-> [inv EXCEPT !.order = <<order>>], ret |-> TRUE]
    ELSE [inv |-> [inv EXCEPT !.order[1].price = order.price,
                              !.order[1].queue_ahead = order.queue_ahead,
                              !.order[1].id = order.id],
          ret |-> TRUE]

add_order(inv, order) ==
    IF ~inv.full_inventory
    THEN IF inv.order = <<>>
         THEN [inv |-> [inv EXCEPT !.order = <<order>>], ret |-> TRUE]
         ELSE [inv |-> [inv EXCEPT !.order[1].price = order.price,
                                   !.order[1].queue_ahead = order.queue_ahead,
                                   !.order[1].id = order.id],
               ret |-> TRUE]
    ELSE [inv |-> inv, ret |-> FALSE]

\* append_position adding the order's price to total_exposure in place of
\* its average execution price
append_position_order_price(inv, filled) ==
    [inv EXCEPT
        !.positions = Append(@, filled),
        !.total_exposure = RAdd(@, filled.price),
        !.average_price =
            RDiv(RAdd(inv.total_exposure, filled.price),
                 RInt(Len(inv.positions) + 1)),
        !.full_inventory = Len(inv.positions) + 1 >= inv.max_position_count,
        !.order = <<>>]

\* lines 160-170 of PositionI.step: the filled order, its average price set,
\* becomes the newest position
append_position(inv, filled) ==
    [inv EXCEPT
        !.positions = Append(@, filled),
        !.total_exposure = RAdd(@, filled.average_exectution_price),
        !.average_price =
            RDiv(RAdd(inv.total_exposure, filled.average_exectution_price),
                 RInt(Len(inv.positions) + 1)),
        !.full_inventory = Len(inv.positions) + 1 >= inv.max_position_count,
        !.order = <<>>]

\* settle leaving the filled order in the slot as well
settle_order_kept(inv, order) ==
    IF is_filled(order)
    THEN [inv |-> [append_position(inv, get_average_execution_price(order))
                       EXCEPT !.order = <<order>>],
          ret |-> TRUE]
    ELSE [inv |-> [inv EXCEPT !.order = <<order>>], ret |-> FALSE]

\* lines 160-172 of PositionI.step, order being self.order after the
\* executions of this step
settle(inv, order) ==
    IF is_filled(order)
    THEN [inv |-> append_position(inv, get_average_execution_price(order)),
          ret |-> TRUE]
    ELSE [inv |-> [inv EXCEPT !.order = <<order>>], ret |-> FALSE]

\* lines 148-151 and 155-158 of PositionI.step
apply_volume(o, volume) ==
    IF is_first_in_queue(o) THEN process_executions(o, volume)
    ELSE reduce_queue_ahead(o, volume)

\* execute with the two volumes exchanged: a long order takes the sell
\* volume, a short order the buy volume
execute_volumes_swapped(o, bid_price, ask_price, buy_volume, sell_volume) ==
    IF o.side = "long"
    THEN (IF RLe(bid_price, o.price) THEN apply_volume(o, sell_volume) ELSE o)
    ELSE IF o.side = "short"
    THEN (IF RLe(o.price, ask_price) THEN apply_volume(o, buy_volume) ELSE o)
    ELSE o

\* execute without the price tests of lines 146 and 153
execute_ungated(o, bid_price, ask_price, buy_volume, sell_volume) ==
    IF o.side = "long" THEN apply_volume(o, buy_volume)
    ELSE IF o.side = "short" THEN apply_volume(o, sell_volume)
    ELSE o

\* lines 146-158 of PositionI.step: a long order takes the buy volume when
\* bid_price <= its price, a short order the sell volume when
\* ask_price >= its price
execute(o, bid_price, ask_price, buy_volume, sell_volume) ==
    IF o.side = "long"
    THEN (IF RLe(bid_price, o.price) THEN apply_volume(o, buy_volume) ELSE o)
    ELSE IF o.side = "short"
    THEN (IF RLe(o.price, ask_price) THEN apply_volume(o, sell_volume) ELSE o)
    ELSE o

\* PositionI.step; its argument step is only logged.
PositionI_step(inv, bid_price, ask_price, buy_volume, sell_volume) ==
    IF inv.order = <<>> THEN [inv |-> inv, ret |-> FALSE]
    ELSE settle(inv, execute(inv.order[1], bid_price, ask_price, buy_volume,
                             sell_volume))

\* pop_position counting a trade for the position it takes
pop_position_trade_counted(inv) ==
    IF position_count(inv) > 0
    THEN LET position == inv.positions[Len(inv.positions)]
             positions == SubSeq(inv.positions, 1, Len(inv.positions) - 1)
             total_exposure ==
                 RSub(inv.total_exposure, position.average_exectution_price)
         IN  [inv |-> [inv EXCEPT
                  !.positions = positions,
                  !.total_exposure = total_exposure,
                  !.average_price =
                      IF Len(positions) > 0
                      THEN RDiv(total_exposure, RInt(Len(positions)))
                      ELSE RZero,
                  !.full_inventory =
                      Len(positions) >= inv.max_position_count,
                  !.total_trade_count = @ + 1],
              ret |-> <<position>>]
    ELSE [inv |-> inv, ret |-> <<>>]

\* pop_position without line 184: full_inventory keeps its value
pop_position_flag_kept(inv) ==
    IF position_count(inv) > 0
    THEN LET position == inv.positions[Len(inv.positions)]
             positions == SubSeq(inv.positions, 1, Len(inv.positions) - 1)
             total_exposure ==
                 RSub(inv.total_exposure, position.average_exectution_price)
         IN  [inv |-> [inv EXCEPT
                  !.positions = positions,
                  !.total_exposure = total_exposure,
                  !.average_price =
                      IF Len(positions) > 0
                      THEN RDiv(total_exposure, RInt(Len(positions)))
                      ELSE RZero],
              ret |-> <<position>>]
    ELSE [inv |-> inv, ret |-> <<>>]

\* PositionI.pop_position: ret is <<position>>, or <<>> for None.
pop_position(inv) ==
    IF position_count(inv) > 0
    THEN LET position == inv.positions[Len(inv.positions)]
             positions == SubSeq(inv.positions, 1, Len(inv.positions) - 1)
             total_exposure ==
                 RSub(inv.total_exposure, position.average_exectution_price)
         IN  [inv |-> [inv EXCEPT
                  !.positions = positions,
                  !.total_exposure = total_exposure,
                  !.average_price =
                      IF Len(positions) > 0
                      THEN RDiv(total_exposure, RInt(Len(positions)))
                      ELSE RZero,
                  !.full_inventory =
                      Len(positions) >= inv.max_position_count],
              ret |-> <<position>>]
    ELSE [inv |-> inv, ret |-> <<>>]

\* remove_position taking the newest position, positions.pop(), in place of
\* the oldest
remove_position_newest(inv, midpoint) ==
    IF position_count(inv) > 0
    THEN LET order == inv.positions[Len(inv.positions)]
             positions == SubSeq(inv.positions, 1, Len(inv.positions) - 1)
             pnl == IF inv.side = "long"
                    THEN RDiv(RSub(midpoint, order.price), order.price)
                    ELSE IF inv.side = "short"
                    THEN RDiv(RSub(order.price, midpoint), order.price)
                    ELSE RZero
             total_exposure ==
                 RSub(inv.total_exposure, order.average_exectution_price)
         IN  [inv |-> [inv EXCEPT
                  !.positions = positions,
                  !.realized_pnl = RAdd(@, pnl),
                  !.total_exposure = total_exposure,
                  !.average_price =
                      IF Len(positions) > 0
                      THEN RDiv(total_exposure, RInt(Len(positions)))
                      ELSE RZero,
                  !.full_inventory =
                      Len(positions) >= inv.max_position_count,
                  !.total_trade_count = @ + 1],
              ret |-> pnl]
    ELSE [inv |-> inv, ret |-> RZero]

\* remove_position with the long side's formula on either side
remove_position_long_formula(inv, midpoint) ==
    IF position_count(inv) > 0
    THEN LET order == Head(inv.positions)
             positions == Tail(inv.positions)
             pnl == RDiv(RSub(midpoint, order.price), order.price)
             total_exposure ==
                 RSub(inv.total_exposure, order.average_exectution_price)
         IN  [inv |-> [inv EXCEPT
                  !.positions = positions,
                  !.realized_pnl = RAdd(@, pnl),
                  !.total_exposure = total_exposure,
                  !.average_price =
                      IF Len(positions) > 0
                      THEN RDiv(total_exposure, RInt(Len(positions)))
                      ELSE RZero,
                  !.full_inventory =
                      Len(positions) >= inv.max_position_count,
                  !.total_trade_count = @ + 1],
              ret |-> pnl]
    ELSE [inv |-> inv, ret |-> RZero]

\* remove_position counting a trade before it looks for a position
remove_position_trade_counted(inv, midpoint) ==
    IF position_count(inv) > 0
    THEN LET order == Head(inv.positions)
             positions == Tail(inv.positions)
             pnl == IF inv.side = "long"
                    THEN RDiv(RSub(midpoint, order.price), order.price)
                    ELSE IF inv.side = "short"
                    THEN RDiv(RSub(order.price, midpoint), order.price)
                    ELSE RZero
             total_exposure ==
                 RSub(inv.total_exposure, order.average_exectution_price)
         IN  [inv |-> [inv EXCEPT
                  !.positions = positions,
                  !.realized_pnl = RAdd(@, pnl),
                  !.total_exposure = total_exposure,
                  !.average_price =
                      IF Len(positions) > 0
                      THEN RDiv(total_exposure, RInt(Len(positions)))
                      ELSE RZero,
                  !.full_inventory =
                      Len(positions) >= inv.max_position_count,
                  !.total_trade_count = @ + 1],
              ret |-> pnl]
    ELSE [inv |-> [inv EXCEPT !.total_trade_count = @ + 1], ret |-> RZero]

remove_position(inv, midpoint) ==
    IF position_count(inv) > 0
    THEN LET order == Head(inv.positions)
             positions == Tail(inv.positions)
             pnl == IF inv.side = "long"
                    THEN RDiv(RSub(midpoint, order.price), order.price)
                    ELSE IF inv.side = "short"
                    THEN RDiv(RSub(order.price, midpoint), order.price)
                    ELSE RZero
             total_exposure ==
                 RSub(inv.total_exposure, order.average_exectution_price)
         IN  [inv |-> [inv EXCEPT
                  !.positions = positions,
                  !.realized_pnl = RAdd(@, pnl),
                  !.total_exposure = total_exposure,
                  !.average_price =
                      IF Len(positions) > 0
                      THEN RDiv(total_exposure, RInt(Len(positions)))
                      ELSE RZero,
                  !.full_inventory =
                      Len(positions) >= inv.max_position_count,
                  !.total_trade_count = @ + 1],
              ret |-> pnl]
    ELSE [inv |-> inv, ret |-> RZero]

\* the while loop without line 228: no fee is taken
RECURSIVE flatten_loop_no_fee(_, _, _)
flatten_loop_no_fee(inv, midpoint, n) ==
    IF position_count(inv) > 0
    THEN flatten_loop_no_fee(remove_position(inv, midpoint).inv, midpoint,
                             n + 1)
    ELSE [inv |-> inv, n |-> n]

\* the while loop of PositionI.flatten_inventory; n counts its iterations
RECURSIVE flatten_loop(_, _, _)
flatten_loop(inv, midpoint, n) ==
    IF position_count(inv) > 0
    THEN flatten_loop([remove_position(inv, midpoint).inv EXCEPT
                           !.realized_pnl = RSub(@, BROKER_FEE)],
                      midpoint, n + 1)
    ELSE [inv |-> inv, n |-> n]

\* flatten_inventory without the test of lines 223-224
PositionI_flatten_inventory_no_guard(inv, midpoint) ==
    [inv |-> flatten_loop(inv, midpoint, 0).inv,
     ret |-> Num(RSub(flatten_loop(inv, midpoint, 0).inv.realized_pnl,
                      inv.realized_pnl)),
     n |-> flatten_loop(inv, midpoint, 0).n]

\* PositionI.flatten_inventory: ret is the amount returned, n the number of
\* remove_position calls made.
PositionI_flatten_inventory(inv, midpoint) ==
    LET prev_realized_pnl == inv.realized_pnl
    IN  IF position_count(inv) < 1
        THEN [inv |-> inv, ret |-> EmptyFlatten, n |-> 0]
        ELSE LET done == flatten_loop(inv, midpoint, 0)
             IN  [inv |-> done.inv,
                  ret |-> Num(RSub(done.inv.realized_pnl, prev_realized_pnl)),
                  n |-> done.n]

\* get_unrealized_pnl dividing the difference by the midpoint in place of
\* the average price
get_unrealized_pnl_by_midpoint(inv, midpoint) ==
    IF position_count(inv) = 0 THEN RZero
    ELSE LET difference == IF inv.side = "long"
                           THEN RSub(midpoint, inv.average_price)
                           ELSE IF inv.side = "short"
                           THEN RSub(inv.average_price, midpoint)
                           ELSE RZero
         IN  IF difference = RZero THEN RZero
             ELSE RDiv(difference, midpoint)

get_unrealized_pnl(inv, midpoint) ==
    IF position_count(inv) = 0 THEN RZero
    ELSE LET difference == IF inv.side = "long"
                           THEN RSub(midpoint, inv.average_price)
                           ELSE IF inv.side = "short"
                           THEN RSub(inv.average_price, midpoint)
                           ELSE RZero
         IN  IF difference = RZero THEN RZero
             ELSE RDiv(difference, inv.average_price)

\* ---------------------------------------------------------------- Broker
\* Broker.add: dispatch on the order's side.
Broker_add(long, short, order) ==
    IF order.side = "long"
    THEN LET r == add_order(long, order)
         IN  [long |-> r.inv, short |-> short, ret |-> r.ret]
    ELSE IF order.side = "short"
    THEN LET r == add_order(short, order)
         IN  [long |-> long, short |-> r.inv, ret |-> r.ret]
    ELSE [long |-> long, short |-> short, ret |-> FALSE]

\* lines 321-323 and 333-335 of Broker.step: popped is what pop_position
\* returned on the side that filled; the other side closes its oldest
\* position at the popped position's price
net_out(popped, other) == remove_position(other, popped.ret[1].price)

\* net_long without line 321: the filled long position is read, not popped
net_long_not_popped(ls, short) ==
    IF ls.ret /\ position_count(short) > 0
    THEN [long |-> ls.inv,
          short |-> net_out(pop_position(ls.inv), short).inv,
          pnl |-> RAdd(RZero, net_out(pop_position(ls.inv), short).ret),
          long_fill |-> ls.ret, long_stepped |-> ls.inv,
          long_popped |-> pop_position(ls.inv).ret]
    ELSE [long |-> ls.inv, short |-> short, pnl |-> RZero,
          long_fill |-> ls.ret, long_stepped |-> ls.inv,
          long_popped |-> <<>>]

\* lines 315-325 of Broker.step, ls being what long_inventory.step
\* returned.  Beside the two inventories and pnl, the result keeps what the
\* handler saw: the inventory as its step left it, whether it filled, and
\* <<the position popped>>.
net_long(ls, short) ==
    IF ls.ret /\ position_count(short) > 0
    THEN [long |-> pop_position(ls.inv).inv,
          short |-> net_out(pop_position(ls.inv), short).inv,
          pnl |-> RAdd(RZero, net_out(pop_position(ls.inv), short).ret),
          long_fill |-> ls.ret, long_stepped |-> ls.inv,
          long_popped |-> pop_position(ls.inv).ret]
    ELSE [long |-> ls.inv, short |-> short, pnl |-> RZero,
          long_fill |-> ls.ret, long_stepped |-> ls.inv,
          long_popped |-> <<>>]

\* net_short returning pnl as it is, line 339 without its division
net_short_unscaled(b, ss) ==
    IF ss.ret /\ position_count(b.long) > 0
    THEN [long |-> net_out(pop_position(ss.inv), b.long).inv,
          short |-> pop_position(ss.inv).inv,
          ret |-> RAdd(b.pnl, net_out(pop_position(ss.inv), b.long).ret),
          long_fill |-> b.long_fill, long_stepped |-> b.long_stepped,
          long_popped |-> b.long_popped,
          short_fill |-> ss.ret, short_stepped |-> ss.inv,
          short_popped |-> pop_position(ss.inv).ret]
    ELSE [long |-> b.long, short |-> ss.inv,
          ret |-> b.pnl,
          long_fill |-> b.long_fill, long_stepped |-> b.long_stepped,
          long_popped |-> b.long_popped,
          short_fill |-> ss.ret, short_stepped |-> ss.inv,
          short_popped |-> <<>>]

\* net_short without lines 331-335: a short fill is never netted
net_short_not_netted(b, ss) ==
    [long |-> b.long, short |-> ss.inv,
     ret |-> RDiv(b.pnl, reward_scale),
     long_fill |-> b.long_fill, long_stepped |-> b.long_stepped,
     long_popped |-> b.long_popped,
     short_fill |-> ss.ret, short_stepped |-> ss.inv,
     short_popped |-> <<>>]

\* lines 327-339 of Broker.step, b being the state after the long side and
\* ss what short_inventory.step returned
net_short(b, ss) ==
    IF ss.ret /\ position_count(b.long) > 0
    THEN [long |-> net_out(pop_position(ss.inv), b.long).inv,
          short |-> pop_position(ss.inv).inv,
          ret |-> RDiv(RAdd(b.pnl, net_out(pop_position(ss.inv), b.long).ret),
                       reward_scale),
          long_fill |-> b.long_fill, long_stepped |-> b.long_stepped,
          long_popped |-> b.long_popped,
          short_fill |-> ss.ret, short_stepped |-> ss.inv,
          short_popped |-> pop_position(ss.inv).ret]
    ELSE [long |-> b.long, short |-> ss.inv,
          ret |-> RDiv(b.pnl, reward_scale),
          long_fill |-> b.long_fill, long_stepped |-> b.long_stepped,
          long_popped |-> b.long_popped,
          short_fill |-> ss.ret, short_stepped |-> ss.inv,
          short_popped |-> <<>>]

\* lines 327-329 of Broker.step
step_short(b, bid_price, ask_price, buy_volume, sell_volume) ==
    net_short(b, PositionI_step(b.short, bid_price, ask_price, buy_volume,
                                sell_volume))

\* Broker.step with lines 327-337 before lines 315-325: the short side is
\* stepped and netted first, the long side after it
Broker_step_short_first(long, short, bid_price, ask_price, buy_volume, sell_volume) ==
    LET s == net_short([long |-> long, pnl |-> RZero, long_fill |-> FALSE,
                        long_stepped |-> long, long_popped |-> <<>>],
                       PositionI_step(short, bid_price, ask_price,
                                      buy_volume, sell_volume))
        l == net_long(PositionI_step(s.long, bid_price, ask_price,
                                     buy_volume, sell_volume), s.short)
    IN  [long |-> l.long, short |-> l.short,
         ret |-> RAdd(s.ret, RDiv(l.pnl, reward_scale)),
         long_fill |-> l.long_fill, long_stepped |-> l.long_stepped,
         long_popped |-> l.long_popped,
         short_fill |-> s.short_fill, short_stepped |-> s.short_stepped,
         short_popped |-> s.short_popped]

\* Broker.step; its argument step is only logged.
Broker_step(long, short, bid_price, ask_price, buy_volume, sell_volume) ==
    step_short(net_long(PositionI_step(long, bid_price, ask_price,
                                       buy_volume, sell_volume), short),
               bid_price, ask_price, buy_volume, sell_volume)

\* Broker.flatten_inventory with the two prices exchanged: the long side
\* is flattened at ask_price, the short side at bid_price
Broker_flatten_inventory_prices_swapped(long, short, bid_price, ask_price) ==
    LET lf == PositionI_flatten_inventory(long, ask_price)
        sf == PositionI_flatten_inventory(short, bid_price)
        total_pnl == NumAdd(lf.ret, sf.ret)
    IN  [long |-> lf.inv, short |-> sf.inv,
         ret |-> IF total_pnl # NumZero THEN NumDiv(total_pnl, reward_scale)
                 ELSE total_pnl,
         long_ret |-> lf.ret, long_n |-> lf.n,
         short_ret |-> sf.ret, short_n |-> sf.n]

\* Broker.flatten_inventory; long_ret and short_ret are what the two
\* inventories returned, long_n and short_n their remove_position calls.
Broker_flatten_inventory(long, short, bid_price, ask_price) ==
    LET lf == PositionI_flatten_inventory(long, bid_price)
        sf == PositionI_flatten_inventory(short, ask_price)
        total_pnl == NumAdd(lf.ret, sf.ret)
    IN  [long |-> lf.inv, short |-> sf.inv,
         ret |-> IF total_pnl # NumZero THEN NumDiv(total_pnl, reward_scale)
                 ELSE total_pnl,
         long_ret |-> lf.ret, long_n |-> lf.n,
         short_ret |-> sf.ret, short_n |-> sf.n]

\* Broker.get_realized_pnl
get_realized_pnl(long, short) == RAdd(short.realized_pnl, long.realized_pnl)

\* Broker.get_total_trade_count
get_total_trade_count(long, short) ==
    long.total_trade_count + short.total_trade_count

\* the 0.0001 of max(order.executed, 0.0001)
ExecutedFloor == <<1, 10000>>

\* queue_feature without the max(..., 0.0001) of lines 354 and 360
queue_feature_no_floor(o) ==
    LET queue == RInt(o.queue_ahead)
        executions == RInt(o.executed)
        trade_size == RInt(Order_size)
    IN  [divisor |-> RAdd(queue, trade_size),
         value |-> RDiv(RSub(executions, queue), RAdd(queue, trade_size))]

\* lines 353-356 and 359-362 of Broker.get_queues_ahead_features for the
\* active order o: divisor is queue + trade_size
queue_feature(o) ==
    LET queue == RInt(o.queue_ahead)
        executions == IF RLe(ExecutedFloor, RInt(o.executed))
                      THEN RInt(o.executed) ELSE ExecutedFloor
        trade_size == RInt(Order_size)
    IN  [divisor |-> RAdd(queue, trade_size),
         value |-> RDiv(RSub(executions, queue), RAdd(queue, trade_size))]

\* Broker.get_queues_ahead_features: <<buy_queue, short_queue>>
get_queues_ahead_features(long, short) ==
    <<IF long.order # <<>> THEN queue_feature(long.order[1]).value ELSE RZero,
      IF short.order # <<>> THEN queue_feature(short.order[1]).value
      ELSE RZero>>

\* ------------------------------------------------------------ the calls
\* What the last call was, what it was given and what it returned; the
\* fields a call does not use keep these values.  order is <<the order
\* given to Broker.add>>; long_fill and short_fill are what the two
\* PositionI.step calls of Broker.step returned, spilled whether one of
\* them took reduce_queue_ahead past the end of the queue, features what
\* get_queues_ahead_features returned.
NoCall ==
    [op |-> "none", ok |-> FALSE, ret |-> NumZero,
     long_fill |-> FALSE, short_fill |-> FALSE, spilled |-> FALSE,
     features |-> <<RZero, RZero>>]

\* The environment that owns the broker: MarketMaker's step_size,
\* action_repeats, local_step_number and done, rows for data.shape[0],
\* warmup for the window_size + INDICATOR_WINDOW_MAX iterations of reset,
\* training for the flag of that name, raised for an IndexError that ended
\* a call.  NoEnv stands for a broker used without an environment.
NoEnv ==
    [step_size |-> 0, action_repeats |-> 0, rows |-> 0, warmup |-> 0,
     training |-> FALSE, local_step_number |-> 0, done |-> FALSE,
     raised |-> FALSE]

\* Broker.__init__(max_position); Order._id = 0
Init ==
    \E max_position \in 1 .. MaxPosition :
        /\ long_inventory = PositionI("long", max_position)
        /\ short_inventory = PositionI("short", max_position)
        /\ Order_id = 0
        /\ last = NoCall
        /\ env = NoEnv

\* order = Order(side=side, price=price, step=..., queue_ahead=queue_ahead)
\* followed by Broker.add(order), as MarketMaker._create_order_at_level
\* does.  The step of an order is only recorded and logged: the orders are
\* taken to be created at steps 0, 1, 2, ...
Add(side, price, queue_ahead) ==
    /\ Order_id < MaxOrders
    /\ LET order == Order(side, price, Order_id, queue_ahead, Order_id + 1)
           r == Broker_add(long_inventory, short_inventory, order)
       IN  /\ Order_id' = Order_id + 1
           /\ long_inventory' = r.long
           /\ short_inventory' = r.short
           /\ last' = [NoCall EXCEPT !.op = "add",
                                     !.ok = r.ret]
           /\ UNCHANGED env

\* the volume PositionI.step applies to the order o: none when o is not
\* marketable
volume_taken(o, bid_price, ask_price, buy_volume, sell_volume) ==
    IF o.side = "long" /\ RLe(bid_price, o.price) THEN <<buy_volume>>
    ELSE IF o.side = "short" /\ RLe(o.price, ask_price) THEN <<sell_volume>>
    ELSE <<>>

\* PositionI.step on inv takes reduce_queue_ahead into its queue_ahead < 0
\* branch
spills(inv, bid_price, ask_price, buy_volume, sell_volume) ==
    /\ inv.order # <<>>
    /\ ~is_first_in_queue(inv.order[1])
    /\ \E v \in {buy_volume, sell_volume} :
           /\ volume_taken(inv.order[1], bid_price, ask_price, buy_volume,
                           sell_volume) = <<v>>
           /\ v > inv.order[1].queue_ahead

Step(bid_price, ask_price, buy_volume, sell_volume) ==
    LET r == Broker_step(long_inventory, short_inventory, bid_price,
                         ask_price, buy_volume, sell_volume)
    IN  /\ long_inventory' = r.long
        /\ short_inventory' = r.short
        /\ last' = [NoCall EXCEPT
                        !.op = "step",
                        !.ret = Num(r.ret),
                        !.long_fill = r.long_fill,
                        !.short_fill = r.short_fill,
                        !.spilled =
                            \/ spills(long_inventory, bid_price, ask_price,
                                      buy_volume, sell_volume)
                            \/ spills(short_inventory, bid_price, ask_price,
                                      buy_volume, sell_volume)]
        /\ UNCHANGED <<Order_id, env>>

Flatten(bid_price, ask_price) ==
    LET r == Broker_flatten_inventory(long_inventory, short_inventory,
                                      bid_price, ask_price)
    IN  /\ long_inventory' = r.long
        /\ short_inventory' = r.short
        /\ last' = [NoCall EXCEPT
                        !.op = "flatten_inventory",
                        !.ret = r.ret]
        /\ UNCHANGED <<Order_id, env>>

\* Broker.reset starting the order ids again
Reset_ids_restarted ==
    /\ long_inventory' = PositionI_reset(long_inventory)
    /\ short_inventory' = PositionI_reset(short_inventory)
    /\ last' = [NoCall EXCEPT !.op = "reset"]
    /\ Order_id' = 0
    /\ UNCHANGED env

\* Broker.reset
Reset ==
    /\ long_inventory' = PositionI_reset(long_inventory)
    /\ short_inventory' = PositionI_reset(short_inventory)
    /\ last' = [NoCall EXCEPT !.op = "reset"]
    /\ UNCHANGED <<Order_id, env>>

DoAdd ==
    \E side \in Sides, price \in Prices, queue_ahead \in Queues :
        Add(side, price, queue_ahead)

DoStep ==
    \E q \in Quotes, buy_volume \in Volumes, sell_volume \in Volumes :
        Step(q[1], q[2], buy_volume, sell_volume)

DoFlatten ==
    \E q \in Quotes : Flatten(q[1], q[2])

Next == DoAdd \/ DoStep \/ DoFlatten \/ Reset

Spec == Init /\ [][Next]_vars

\* ----------------------------------------- the calls made on one inventory
\* PositionI.pop_position called on the inventory of one side
PopPosition(side) ==
    LET r == pop_position(IF side = "long" THEN long_inventory
                          ELSE short_inventory)
    IN  /\ long_inventory' = IF side = "long" THEN r.inv ELSE long_inventory
        /\ short_inventory' = IF side = "short" THEN r.inv
                              ELSE short_inventory
        /\ last' = [NoCall EXCEPT !.op = "pop_position", !.ok = r.ret # <<>>]
        /\ UNCHANGED <<Order_id, env>>

\* PositionI.remove_position(midpoint) called on the inventory of one side
RemovePosition(side, midpoint) ==
    LET r == remove_position(IF side = "long" THEN long_inventory
                             ELSE short_inventory, midpoint)
    IN  /\ long_inventory' = IF side = "long" THEN r.inv ELSE long_inventory
        /\ short_inventory' = IF side = "short" THEN r.inv
                              ELSE short_inventory
        /\ last' = [NoCall EXCEPT !.op = "remove_position",
                                  !.ret = Num(r.ret)]
        /\ UNCHANGED <<Order_id, env>>

\* Broker.get_queues_ahead_features: a query, nothing changes
GetQueuesAheadFeatures ==
    /\ last' = [NoCall EXCEPT
                    !.op = "get_queues_ahead_features",
                    !.features = get_queues_ahead_features(long_inventory,
                                                           short_inventory)]
    /\ UNCHANGED <<long_inventory, short_inventory, Order_id, env>>

DoPopPosition ==
    \E side \in Sides : PopPosition(side)

DoRemovePosition ==
    \E side \in Sides, midpoint \in Prices : RemovePosition(side, midpoint)

\* the calls of Next and the calls made on an inventory or a query directly
NextCalls ==
    Next \/ DoPopPosition \/ DoRemovePosition \/ GetQueuesAheadFeatures

SpecCalls == Init /\ [][NextCalls]_vars

\* -------------------------------------------------------- the environment
\* MarketMaker: the parameters an environment is built with, the rows of
\* its data, and the three kinds of action of
\* _send_to_broker_and_get_reward (0, 1 .. 15, 16).
StepSizes == {1, 2}
ActionRepeats == {1, 2}
Warmups == {1, 2}
RowCounts == 4 .. MaxRows
EnvActions == {"nothing", "orders", "flatten"}

\* what one row of the data gives MarketMaker.step: the best bid and ask
\* of _get_nbbo, the buy volume and the sell volume; the rows taken have
\* no spread and one and a half lots traded on each side
Ticks ==
    {t \in Quotes \X Volumes \X Volumes :
        t[1][1] = t[1][2] /\ t[2] = t[3] /\ t[2] > Order_size}

\* the (price, queue_ahead) _create_order_at_level reads from the data for
\* an order
OrderData == Prices \X Queues

\* self.max_steps
max_steps(e) == e.rows - e.step_size * e.action_repeats - 1

\* self.data[self.local_step_number] and self.prices_[...] raise IndexError
\* past the last row
IndexError(e) == e.local_step_number > e.rows - 1

\* the first local_step_number of reset: 0, or
\* randint(low=1, high=data.shape[0] // 4) when training
Starts(rows, training) ==
    IF training THEN 1 .. (rows \div 4 - 1) ELSE {0}

\* the for loop of MarketMaker.reset, n iterations to go
RECURSIVE warm_up(_, _)
warm_up(e, n) ==
    IF n = 0 THEN e
    ELSE IF IndexError(e) THEN [e EXCEPT !.raised = TRUE]
    ELSE warm_up([e EXCEPT !.local_step_number = @ + e.step_size], n - 1)

\* MarketMaker.reset, start being the first local_step_number; the broker
\* is reset beside it
MarketMaker_reset(e, start) ==
    warm_up([e EXCEPT !.local_step_number = start, !.done = FALSE],
            e.warmup)

\* the broker as MarketMaker sees it: r holds the two inventories
EnvBroker(r, id) == [long |-> r.long, short |-> r.short, Order_id |-> id]

\* the broker b after its long inventory was given bid_order
long_added(b, bid_order) ==
    [long |-> add_order(b.long, bid_order).inv, short |-> b.short]

\* the broker b after its short inventory was given ask_order
short_added(b, ask_order) ==
    [long |-> b.long, short |-> add_order(b.short, ask_order).inv]

\* the two _create_order_at_level calls of actions 1 .. 15: a long order,
\* then a short order, each constructed and given to Broker.add
create_orders(b, orders, step) ==
    EnvBroker(short_added(long_added(b, Order("long", orders[1][1], step,
                                              orders[1][2], b.Order_id + 1)),
                          Order("short", orders[2][1], step, orders[2][2],
                                b.Order_id + 2)),
              b.Order_id + 2)

\* _send_to_broker_and_get_reward
send_to_broker(b, action, tick, orders, step) ==
    IF action = "orders" THEN create_orders(b, orders, step)
    ELSE IF action = "flatten"
    THEN EnvBroker(Broker_flatten_inventory(b.long, b.short, tick[1][1],
                                            tick[1][2]),
                   b.Order_id)
    ELSE b

\* lines 153-158 of MarketMaker.step: broker.step with the row's quotes
\* and volumes
broker_step(b, tick) ==
    EnvBroker(Broker_step(b.long, b.short, tick[1][1], tick[1][2], tick[2],
                          tick[3]),
              b.Order_id)

\* repeat_steps without line 169: local_step_number is not advanced
RECURSIVE repeat_steps_index_kept(_, _, _, _, _, _)
repeat_steps_index_kept(e, b, current_step, ticks, action, orders) ==
    IF ticks = <<>> THEN [env |-> e, broker |-> b]
    ELSE IF IndexError(e)
    THEN [env |-> [e EXCEPT !.raised = TRUE], broker |-> b]
    ELSE repeat_steps_index_kept(
             e,
             send_to_broker(broker_step(b, Head(ticks)),
                            IF current_step = 0 THEN action ELSE "nothing",
                            Head(ticks), orders, e.local_step_number),
             current_step + 1, Tail(ticks), action, orders)

\* the for loop of MarketMaker.step from iteration current_step on: ticks
\* are the rows the remaining iterations read; the action is sent in
\* iteration 0 and action 0 in the others
RECURSIVE repeat_steps(_, _, _, _, _, _)
repeat_steps(e, b, current_step, ticks, action, orders) ==
    IF ticks = <<>> THEN [env |-> e, broker |-> b]
    ELSE IF IndexError(e)
    THEN [env |-> [e EXCEPT !.raised = TRUE], broker |-> b]
    ELSE repeat_steps(
             [e EXCEPT !.local_step_number = @ + e.step_size],
             send_to_broker(broker_step(b, Head(ticks)),
                            IF current_step = 0 THEN action ELSE "nothing",
                            Head(ticks), orders, e.local_step_number),
             current_step + 1, Tail(ticks), action, orders)

\* lines 173-175 of MarketMaker.step on the environment after the loop:
\* done is set before _get_nbbo reads the row, which may raise
finish_env(e) ==
    IF e.raised THEN e
    ELSE IF e.local_step_number > max_steps(e)
    THEN [e EXCEPT !.done = TRUE, !.raised = IndexError(e)]
    ELSE e

\* the same lines with the broker, r being the state after the loop and
\* final the quotes of the row _get_nbbo reads: the inventories are
\* flattened at them unless reading the row raised
finish_step(r, final) ==
    [env |-> finish_env(r.env),
     broker |->
         IF /\ ~r.env.raised
            /\ r.env.local_step_number > max_steps(r.env)
            /\ ~IndexError(r.env)
         THEN EnvBroker(Broker_flatten_inventory(r.broker.long,
                            r.broker.short, final[1], final[2]),
                        r.broker.Order_id)
         ELSE r.broker]

\* MarketMaker.step on an environment that is not done
MarketMaker_step(e, b, ticks, action, orders, final) ==
    finish_step(repeat_steps(e, b, 0, ticks, action, orders), final)

\* MarketMaker.__init__, which ends with a reset: the environments whose
\* construction did not raise
InitEnv ==
    \E max_position \in 1 .. MaxPosition, rows \in RowCounts,
       step_size \in StepSizes, action_repeats \in ActionRepeats,
       warmup \in Warmups, training \in BOOLEAN :
        \E start \in Starts(rows, training) :
            /\ long_inventory = PositionI("long", max_position)
            /\ short_inventory = PositionI("short", max_position)
            /\ Order_id = 0
            /\ last = NoCall
            /\ env = MarketMaker_reset(
                         [NoEnv EXCEPT !.step_size = step_size,
                                       !.action_repeats = action_repeats,
                                       !.rows = rows, !.warmup = warmup,
                                       !.training = training], start)
            /\ ~env.raised

\* MarketMaker.step(action) on an environment that is done: it resets
\* itself and returns
EnvStepReset(start) ==
    /\ env.done
    /\ env' = MarketMaker_reset(env, start)
    /\ long_inventory' = PositionI_reset(long_inventory)
    /\ short_inventory' = PositionI_reset(short_inventory)
    /\ last' = [NoCall EXCEPT !.op = "env_reset"]
    /\ UNCHANGED Order_id

\* MarketMaker.step(action) on an environment that is not done
EnvStepRun(ticks, action, orders, final) ==
    /\ ~env.done
    /\ action = "orders" => Order_id + 2 <= MaxOrders
    /\ LET r == MarketMaker_step(env,
                                 [long |-> long_inventory,
                                  short |-> short_inventory,
                                  Order_id |-> Order_id],
                                 ticks, action, orders, final)
       IN  /\ env' = r.env
           /\ long_inventory' = r.broker.long
           /\ short_inventory' = r.broker.short
           /\ Order_id' = r.broker.Order_id
           /\ last' = [NoCall EXCEPT !.op = "env_step",
                                     !.ok = r.env.done /\ ~r.env.raised]

\* MarketMaker.step(action); a call that raised has ended the run
EnvStep ==
    /\ ~env.raised
    /\ \/ \E start \in Starts(env.rows, env.training) : EnvStepReset(start)
       \/ \E ticks \in [1 .. env.action_repeats -> Ticks],
             action \in EnvActions \ {"orders"} :
              EnvStepRun(ticks, action, <<>>, ticks[1][1])
       \/ \E ticks \in [1 .. env.action_repeats -> Ticks],
             bid \in OrderData, ask \in OrderData :
              EnvStepRun(ticks, "orders", <<bid, ask>>, ticks[1][1])

NextEnv == EnvStep

\* what a call of MarketMaker.step makes of local_step_number, done and
\* raised, which depend on neither the broker nor the action: the reset of
\* an environment that is done, else the action_repeats increments of the
\* loop and the test of line 173
env_after_step(e, start) ==
    IF e.done THEN MarketMaker_reset(e, start)
    ELSE finish_env(warm_up(e, e.action_repeats))

\* a call of MarketMaker.step as env alone shows it: every EnvStep step is
\* one, and one is possible exactly when EnvStep is
StepCalled ==
    /\ ~env.raised
    /\ \E start \in Starts(env.rows, env.training) :
           env' = env_after_step(env, start)

\* step is called again and again for as long as no call has raised
SpecEnv == InitEnv /\ [][NextEnv]_vars /\ WF_env(StepCalled)

\* ------------------------------------------------------------ the claims
\* The inputs of one Broker.step, and every order the two inventories hold.
StepInputs == Quotes \X Volumes \X Volumes

Inventories == {long_inventory, short_inventory}

positions_of(inv) == {inv.positions[i] : i \in 1 .. Len(inv.positions)}

active_of(inv) == {inv.order[i] : i \in 1 .. Len(inv.order)}

AllOrders == UNION {positions_of(inv) \cup active_of(inv) : inv \in Inventories}

\* the volume an executions mapping records under the keys ks
RECURSIVE recorded(_, _)
recorded(ks, executions) ==
    IF ks = {} THEN 0
    ELSE LET k == CHOOSE x \in ks : TRUE
         IN  executions[k] + recorded(ks \ {k}, executions)

recorded_ok(o) ==
    /\ recorded(DOMAIN o.executions, o.executions) = o.executed
    /\ 0 <= o.executed
    /\ o.executed <= Order_size

\* C1: the volumes recorded in the executions mapping of an order sum to
\* its executed, and 0 <= executed <= lot size: for every order the broker
\* holds, resting or filled, and still after one more process_executions
\* or reduce_queue_ahead call with any volume >= 0, at its own price or
\* after an amendment to any other price.
C1_RecordedVolume ==
    \A o \in AllOrders :
        /\ recorded_ok(o)
        /\ \A volume \in Volumes \cup {0}, price \in Prices :
               /\ recorded_ok(process_executions([o EXCEPT !.price = price],
                                                 volume))
               /\ recorded_ok(reduce_queue_ahead([o EXCEPT !.price = price],
                                                 volume))

\* a filled position whose fills were recorded at two prices
C1_Witness ==
    /\ last.op = "step"
    /\ last.long_fill
    /\ \E o \in positions_of(long_inventory) :
           /\ Cardinality(DOMAIN o.executions) = 2
           /\ o.executed = Order_size

\* C2: for max_position >= 1 the position_count of the long and of the
\* short inventory never exceeds max_position, neither between the calls
\* nor inside Broker.step right after an inventory's own step (the state
\* between a fill and its netting).
C2_PositionCount ==
    /\ \A inv \in Inventories :
           position_count(inv) <= inv.max_position_count
    /\ \A i \in StepInputs :
           LET r == Broker_step(long_inventory, short_inventory,
                                i[1][1], i[1][2], i[2], i[3])
           IN  /\ position_count(r.long_stepped)
                      <= long_inventory.max_position_count
               /\ position_count(r.short_stepped)
                      <= short_inventory.max_position_count

\* a fill has brought the long inventory to a capacity of MaxPosition
C2_Witness ==
    /\ last.op = "step"
    /\ last.long_fill
    /\ long_inventory.max_position_count = MaxPosition
    /\ position_count(long_inventory) = MaxPosition
    /\ long_inventory.full_inventory

\* A long order that has just been placed with queue_ahead = 0 into a long
\* inventory holding no position: nothing executed, nothing recorded.
fresh_long_order ==
    /\ position_count(long_inventory) = 0
    /\ long_inventory.order # <<>>
    /\ long_inventory.order[1].queue_ahead = 0
    /\ long_inventory.order[1].executed = 0
    /\ long_inventory.order[1].executions = <<>>

\* what C3 promises of the long inventory's step r on an order at price
round_trip_fill(r, price) ==
    /\ r.ret
    /\ position_count(r.inv) = 1
    /\ r.inv.order = <<>>
    /\ r.inv.average_price = price

\* C3 as stated: an order at price P placed with queue_ahead = 0 into an
\* empty long inventory fills in the next step whenever that step supplies
\* buy_volume >= lot size (no other precondition): the inventory's step
\* reports a fill, position_count becomes 1, the slot is empty and
\* average_price = P.
C3_Original ==
    fresh_long_order =>
        \A i \in StepInputs :
            i[2] >= Order_size =>
                round_trip_fill(PositionI_step(long_inventory, i[1][1],
                                               i[1][2], i[2], i[3]),
                                long_inventory.order[1].price)

\* C3 as amended: the same, for the steps whose bid_price is at most P
\* (the order is marketable).
C3_RoundTripFill ==
    fresh_long_order =>
        \A i \in StepInputs :
            (i[2] >= Order_size /\ RLe(i[1][1], long_inventory.order[1].price))
                => round_trip_fill(PositionI_step(long_inventory, i[1][1],
                                                  i[1][2], i[2], i[3]),
                                   long_inventory.order[1].price)

\* the only order ever constructed has filled in one piece and is the one
\* position of the long inventory, whose average price is the order's price
C3_Witness ==
    /\ last.op = "step"
    /\ last.long_fill
    /\ Order_id = 1
    /\ position_count(long_inventory) = 1
    /\ long_inventory.order = <<>>
    /\ long_inventory.positions[1].executions
           = [k \in {long_inventory.positions[1].price} |-> Order_size]
    /\ long_inventory.average_price = long_inventory.positions[1].price

\* the PnL of closing position p of an inventory of the given side at the
\* reference price
position_pnl(side, p, reference) ==
    IF side = "long" THEN RDiv(RSub(reference, p.price), p.price)
    ELSE RDiv(RSub(p.price, reference), p.price)

RECURSIVE sum_pnl(_, _, _)
sum_pnl(positions, side, reference) ==
    IF positions = <<>> THEN RZero
    ELSE RAdd(position_pnl(side, Head(positions), reference),
              sum_pnl(Tail(positions), side, reference))

C5_EmptyFlatten ==
    \A inv \in Inventories, reference \in Prices :
        position_count(inv) = 0 =>
            LET r == PositionI_flatten_inventory(inv, reference)
            IN  /\ r.ret = [q |-> RZero, eps |-> RInt(-1)]
                /\ r.n = 0
                /\ r.inv = inv

\* Broker.flatten_inventory has just been called with no position on
\* either side, a partly executed long order resting
C5_Witness ==
    /\ last.op = "flatten_inventory"
    /\ position_count(long_inventory) = 0
    /\ position_count(short_inventory) = 0
    /\ long_inventory.total_trade_count = 0
    /\ short_inventory.total_trade_count = 0
    /\ last.ret = [q |-> RZero, eps |-> RDiv(RInt(-2), reward_scale)]
    /\ long_inventory.order # <<>>
    /\ long_inventory.order[1].executed > 0

\* Broker.step on the present state with the inputs i
step_with(i) ==
    Broker_step(long_inventory, short_inventory, i[1][1], i[1][2], i[2], i[3])

\* C6: in a Broker.step that starts with the short inventory holding at
\* least one position and in which the long order fills and the short
\* order, if any, does not, the short position count ends lower by exactly
\* 1 and the long position count ends unchanged: the filled long position
\* is appended and popped again within the step.
C6_NettingCounts ==
    \A i \in StepInputs :
        LET r == step_with(i)
        IN  (position_count(short_inventory) >= 1 /\ r.long_fill
                 /\ ~r.short_fill) =>
                /\ position_count(r.short)
                       = position_count(short_inventory) - 1
                /\ position_count(r.long) = position_count(long_inventory)
                /\ position_count(r.long_stepped)
                       = position_count(long_inventory) + 1
                /\ r.long_popped
                       = <<r.long_stepped.positions[
                               Len(r.long_stepped.positions)]>>

\* a step has filled the long order and left no long position: the fill
\* was netted against the one short position, the short side's only trade
C6_Witness ==
    /\ last.op = "step"
    /\ last.long_fill
    /\ ~last.short_fill
    /\ position_count(long_inventory) = 0
    /\ position_count(short_inventory) = 0
    /\ short_inventory.total_trade_count = 1
    /\ long_inventory.total_trade_count = 0

\* the step r nets a long fill against a held short position and nets
\* nothing else
only_long_netted(r) == r.long_popped # <<>> /\ r.short_popped = <<>>

\* C7 as stated: in a Broker.step that nets a long fill against one held
\* short position, and nets nothing else, the value returned is nonzero and
\* is ((long_fill_price - short_position_price) / short_position_price)
\* / reward_scale.
C7_Original ==
    \A i \in StepInputs :
        LET r == step_with(i)
        IN  only_long_netted(r) =>
                /\ r.ret # RZero
                /\ r.ret = RDiv(RDiv(RSub(r.long_popped[1].price,
                                           Head(short_inventory.positions).price),
                                      Head(short_inventory.positions).price),
                                 reward_scale)

\* C7 as amended: the value returned is ((short_position_price -
\* long_fill_price) / short_position_price) / reward_scale, the PnL of the
\* short position closed at the long order's price; it is nonzero exactly
\* when the two prices differ.
C7_NettingReturn ==
    \A i \in StepInputs :
        LET r == step_with(i)
        IN  only_long_netted(r) =>
                /\ r.ret = RDiv(RDiv(RSub(Head(short_inventory.positions).price,
                                           r.long_popped[1].price),
                                      Head(short_inventory.positions).price),
                                 reward_scale)
                /\ r.ret # RZero
                       <=> Head(short_inventory.positions).price
                               # r.long_popped[1].price

\* a long fill at 1 has been netted against a short position sold at 2:
\* the step returned (2 - 1) / 2 / reward_scale = 250 / 3
C7_Witness ==
    /\ last.op = "step"
    /\ last.long_fill
    /\ ~last.short_fill
    /\ position_count(long_inventory) = 0
    /\ short_inventory.realized_pnl = <<1, 2>>
    /\ last.ret = Num(RDiv(<<1, 2>>, reward_scale))

\* the orders Broker.add can be given next for the side of inv
next_orders(inv) ==
    {Order(inv.side, price, Order_id, queue_ahead, Order_id + 1) :
        price \in Prices, queue_ahead \in Queues}

\* C8: add_order on an inventory that is not full and has an active order
\* overwrites that order's price, queue_ahead and id with the new order's
\* and leaves its executed, executions, side and step as they were; the
\* order given is not stored, the slot still holds the original one; the
\* rest of the inventory is unchanged and the call returns true.
C8_Amendment ==
    \A inv \in Inventories :
        (~inv.full_inventory /\ inv.order # <<>>) =>
            \A order \in next_orders(inv) :
                LET r == add_order(inv, order)
                    old == inv.order[1]
                    new == r.inv.order[1]
                IN  /\ r.ret
                    /\ Len(r.inv.order) = 1
                    /\ new.price = order.price
                    /\ new.queue_ahead = order.queue_ahead
                    /\ new.id = order.id
                    /\ new.executed = old.executed
                    /\ new.executions = old.executions
                    /\ new.side = old.side
                    /\ new.step = old.step
                    /\ new.average_exectution_price
                           = old.average_exectution_price
                    /\ new # order
                    /\ r.inv = [inv EXCEPT !.order = <<new>>]

\* the first order, half executed, has just been amended by the second
C8_Witness ==
    /\ last.op = "add"
    /\ last.ok
    /\ long_inventory.order # <<>>
    /\ long_inventory.order[1].id = 2
    /\ long_inventory.order[1].step = 0
    /\ long_inventory.order[1].executed = Order_size \div 2
    /\ long_inventory.order[1].executions # <<>>
    /\ long_inventory.order[1].price
           \notin DOMAIN long_inventory.order[1].executions

\* (v1 + v2) / (v1 / P1 + v2 / P2) rounded to 4 decimals for fills at two
\* prices, and P for fills at the one price P
expected_average(executions) ==
    IF Cardinality(DOMAIN executions) = 1
    THEN CHOOSE k \in DOMAIN executions : TRUE
    ELSE LET P1 == CHOOSE k \in DOMAIN executions : TRUE
             P2 == CHOOSE k \in DOMAIN executions : k # P1
             v1 == RInt(executions[P1])
             v2 == RInt(executions[P2])
         IN  Round4(RDiv(RAdd(v1, v2), RAdd(RDiv(v1, P1), RDiv(v2, P2))))

\* C9: the average execution price computed when an order fills uses the
\* fills before and after an amendment: for v1 recorded at P1 and v2 at P2
\* (v1 + v2 = lot size) it is (v1 + v2) / (v1 / P1 + v2 / P2) rounded to 4
\* decimals, and P when all fills are at the one price P.  Checked of every
\* position held, and of get_average_execution_price on every order that
\* has executed something.
C9_AveragePrice ==
    /\ \A inv \in Inventories : \A p \in positions_of(inv) :
           /\ Cardinality(DOMAIN p.executions) \in {1, 2}
           /\ recorded(DOMAIN p.executions, p.executions) = Order_size
           /\ p.average_exectution_price = expected_average(p.executions)
    /\ \A o \in AllOrders :
           o.executed > 0 =>
               get_average_execution_price(o).average_exectution_price
                   = expected_average(o.executions)

\* a long order half filled at 1, amended to 2 and filled there has become
\* the only long position: 1000 / (500 / 1 + 500 / 2) = 1.3333
C9_Witness ==
    /\ last.op = "step"
    /\ last.long_fill
    /\ position_count(long_inventory) = 1
    /\ long_inventory.positions[1].executions
           = [k \in Prices |-> Order_size \div 2]
    /\ long_inventory.positions[1].average_exectution_price
           = <<13333, 10000>>
    /\ long_inventory.average_price = <<13333, 10000>>

\* C10: add_order on an inventory whose full_inventory flag is set returns
\* false and changes nothing in it; on an inventory that is not full it
\* returns true.  Broker.add returns the same and leaves the other
\* inventory alone.
C10_AddOrder ==
    \A inv \in Inventories : \A order \in next_orders(inv) :
        LET r == add_order(inv, order)
            b == Broker_add(long_inventory, short_inventory, order)
        IN  /\ inv.full_inventory => (~r.ret /\ r.inv = inv)
            /\ ~inv.full_inventory => r.ret
            /\ b.ret = r.ret
            /\ inv.side = "long"
                   => (b.long = r.inv /\ b.short = short_inventory)
            /\ inv.side = "short"
                   => (b.short = r.inv /\ b.long = long_inventory)

\* Broker.add has just returned false: the long inventory is full and its
\* slot is still empty
C10_Witness ==
    /\ last.op = "add"
    /\ ~last.ok
    /\ long_inventory.full_inventory
    /\ long_inventory.order = <<>>
    /\ position_count(long_inventory) = long_inventory.max_position_count
    /\ short_inventory.order = <<>>
    /\ position_count(short_inventory) = 0

\* C11: pop_position on an inventory without positions returns None and
\* remove_position on one returns 0; neither changes anything in the
\* inventory (realized PnL, trade count, exposure, average price, full flag,
\* active order).
C11_EmptyInventory ==
    \A inv \in Inventories :
        position_count(inv) = 0 =>
            /\ pop_position(inv).ret = <<>>
            /\ pop_position(inv).inv = inv
            /\ \A midpoint \in Prices :
                   /\ remove_position(inv, midpoint).ret = RZero
                   /\ remove_position(inv, midpoint).inv = inv

\* an inventory that has closed a trade, holds no position and has an
\* active order
closed_and_empty(inv) ==
    /\ position_count(inv) = 0
    /\ inv.total_trade_count > 0
    /\ inv.realized_pnl # RZero
    /\ inv.order # <<>>

\* pop_position has just returned None, or remove_position 0, on the short
\* inventory, which has closed a trade before, holds no position and has
\* an active order
C11_Witness ==
    /\ closed_and_empty(short_inventory)
    /\ \/ last.op = "pop_position" /\ ~last.ok
       \/ last.op = "remove_position" /\ last.ret = NumZero

\* C12: starting from two empty inventories, after every completed
\* Broker.add, Broker.step or Broker.flatten_inventory the long and the
\* short inventory never both hold a position; this is so of the state a
\* call starts in and of the result of every Broker.step made from it.
C12_CrossSide ==
    /\ ~(position_count(long_inventory) > 0
           /\ position_count(short_inventory) > 0)
    /\ \A i \in StepInputs :
           ~(position_count(step_with(i).long) > 0
               /\ position_count(step_with(i).short) > 0)

\* both orders filled in one Broker.step: the long fill became a position,
\* the short fill was netted against it, and neither side holds a position
C12_Witness ==
    /\ last.op = "step"
    /\ last.long_fill
    /\ last.short_fill
    /\ position_count(long_inventory) = 0
    /\ position_count(short_inventory) = 0
    /\ long_inventory.total_trade_count = 1
    /\ short_inventory.total_trade_count = 0

\* the full_inventory flag of inv says whether it is at capacity
flag_consistent(inv) ==
    inv.full_inventory <=> position_count(inv) >= inv.max_position_count

\* C14: for max_position >= 1, in every state reached by Broker.add,
\* Broker.step, Broker.flatten_inventory and Broker.reset each inventory's
\* full_inventory flag is true exactly when position_count >= max_position.
C14_FullFlag ==
    \A inv \in Inventories :
        inv.max_position_count >= 1 => flag_consistent(inv)

\* with max_position = 1 a long fill has filled the long inventory and
\* was netted away in the same Broker.step: the flag is false again
C14_Witness ==
    /\ last.op = "step"
    /\ last.long_fill
    /\ long_inventory.max_position_count = 1
    /\ position_count(long_inventory) = 0
    /\ ~long_inventory.full_inventory
    /\ short_inventory.total_trade_count = 1
    /\ ~short_inventory.full_inventory

\* the realized PnL of a side after it closes position p at the reference
\* price and pays one fee for it
closed_with_fee(realized_pnl, side, p, reference) ==
    RSub(RAdd(realized_pnl, position_pnl(side, p, reference)), BROKER_FEE)

\* C13 as stated: every position closed with realized PnL booked lowers
\* the realized PnL of the side it is removed from by exactly one fee,
\* whether flatten_inventory closes it or the netting inside Broker.step:
\* the realized PnL after the close is the one before plus the position's
\* PnL minus the fee.
C13_FeePerClose ==
    /\ \A inv \in Inventories, reference \in Prices :
           position_count(inv) >= 1 =>
               PositionI_flatten_inventory(inv, reference).inv.realized_pnl
                   = RSub(RAdd(inv.realized_pnl,
                               sum_pnl(inv.positions, inv.side, reference)),
                          RMul(RInt(position_count(inv)), BROKER_FEE))
    /\ \A i \in StepInputs :
           LET r == step_with(i)
           IN  /\ r.long_popped # <<>> =>
                      r.short.realized_pnl
                          = closed_with_fee(short_inventory.realized_pnl,
                                            "short",
                                            Head(short_inventory.positions),
                                            r.long_popped[1].price)
               /\ r.short_popped # <<>> =>
                      r.long.realized_pnl
                          = closed_with_fee(long_inventory.realized_pnl,
                                            "long",
                                            Head(r.long_stepped.positions),
                                            r.short_popped[1].price)

\* a short fill at 2 has been netted against the long position bought at
\* 1: the long side realized (2 - 1) / 1 = 1, and no fee was taken from it
C13_Witness ==
    /\ last.op = "step"
    /\ last.short_fill
    /\ ~last.long_fill
    /\ position_count(long_inventory) = 0
    /\ position_count(short_inventory) = 0
    /\ long_inventory.total_trade_count = 1
    /\ long_inventory.realized_pnl = RInt(1)
    /\ short_inventory.realized_pnl = RZero

\* the volumes an order can be stepped with, and none
VolumesOrNone == Volumes \cup {0}

\* C15: an order created and amended only with queue_ahead >= 0 and
\* stepped only with volumes >= 0 never has queue_ahead < 0: not the orders
\* the inventories hold, and not after one more reduce_queue_ahead with any
\* volume.
C15_QueueAhead ==
    \A o \in AllOrders :
        /\ o.queue_ahead >= 0
        /\ \A v \in VolumesOrNone :
               reduce_queue_ahead(o, v).queue_ahead >= 0

\* the only order constructed, placed behind a queue of one lot, has been
\* stepped with more volume than the queue held: the queue is 0 and the
\* rest was executed
C15_Witness ==
    /\ last.op = "step"
    /\ last.spilled
    /\ Order_id = 1
    /\ long_inventory.order # <<>>
    /\ long_inventory.order[1].queue_ahead = 0
    /\ long_inventory.order[1].executed = Order_size \div 2

\* the order PositionI.step worked on, as the step r left it: the newest
\* position when it filled, the active order otherwise
stepped_order(r) ==
    IF r.ret THEN r.inv.positions[Len(r.inv.positions)] ELSE r.inv.order[1]

\* the volume executions records at price, 0 when there is none
recorded_at(executions, price) ==
    IF price \in DOMAIN executions THEN executions[price] ELSE 0

\* the smaller of two volumes
Min(a, b) == IF a <= b THEN a ELSE b

\* after is o with grown > 0 more executed, recorded at o's price, and
\* with the given queue_ahead
executed_more(o, after, grown, queue_ahead) ==
    /\ after.queue_ahead = queue_ahead
    /\ after.executed = o.executed + grown
    /\ grown > 0
    /\ DOMAIN after.executions = DOMAIN o.executions \cup {o.price}
    /\ \A k \in DOMAIN after.executions :
           after.executions[k]
               = recorded_at(o.executions, k)
                   + (IF k = o.price THEN grown ELSE 0)

\* C19: when PositionI.step applies volume v to a marketable order with
\* queue_ahead q > 0: if v <= q the queue becomes q - v and executed and
\* executions are unchanged; if v > q the queue becomes 0 and executed
\* grows in the same step by min(v - q, lot size - executed), recorded at
\* the order's price.  With q = 0 executed grows by
\* min(v, lot size - executed).
C19_Spillover ==
    \A inv \in Inventories : \A i \in StepInputs :
        (inv.order # <<>>
            /\ volume_taken(inv.order[1], i[1][1], i[1][2], i[2], i[3])
                   # <<>>) =>
            LET o == inv.order[1]
                q == o.queue_ahead
                v == volume_taken(o, i[1][1], i[1][2], i[2], i[3])[1]
                after == stepped_order(PositionI_step(inv, i[1][1], i[1][2],
                                                      i[2], i[3]))
            IN  /\ (q > 0 /\ v <= q) =>
                       /\ after.queue_ahead = q - v
                       /\ after.executed = o.executed
                       /\ after.executions = o.executions
                /\ (q > 0 /\ v > q) =>
                       executed_more(o, after,
                                     Min(v - q, Order_size - o.executed), 0)
                /\ q = 0 =>
                       executed_more(o, after,
                                     Min(v, Order_size - o.executed), 0)

\* the only order constructed waited behind a queue, and the step that
\* took the queue to 0 executed the whole order with what was left over
C19_Witness ==
    /\ last.op = "step"
    /\ last.spilled
    /\ last.long_fill
    /\ Order_id = 1
    /\ position_count(long_inventory) = 1
    /\ long_inventory.positions[1].queue_ahead = 0
    /\ long_inventory.positions[1].executed = Order_size
    /\ long_inventory.positions[1].executions
           = [k \in {long_inventory.positions[1].price} |-> Order_size]

\* the order o is marketable at the quotes: a long order when
\* bid_price <= its price, a short order when ask_price >= its price
marketable(o, bid_price, ask_price) ==
    \/ o.side = "long" /\ RLe(bid_price, o.price)
    \/ o.side = "short" /\ RLe(o.price, ask_price)

\* C20: PositionI.step changes the active order only when it is
\* marketable, a long order only by buy_volume and a short order only by
\* sell_volume; without an active order, or with one that is not
\* marketable, it returns false and leaves the whole inventory unchanged.
C20_Marketability ==
    \A inv \in Inventories : \A i \in StepInputs :
        LET r == PositionI_step(inv, i[1][1], i[1][2], i[2], i[3])
        IN  /\ inv.order = <<>> => (~r.ret /\ r.inv = inv)
            /\ (inv.order # <<>>
                   /\ ~marketable(inv.order[1], i[1][1], i[1][2])) =>
                      (~r.ret /\ r.inv = inv)
            /\ (inv.order # <<>>
                   /\ marketable(inv.order[1], i[1][1], i[1][2])) =>
                      /\ r.inv # inv
                      /\ \A other \in Volumes :
                             r = IF inv.side = "long"
                                 THEN PositionI_step(inv, i[1][1], i[1][2],
                                                     i[2], other)
                                 ELSE PositionI_step(inv, i[1][1], i[1][2],
                                                     other, i[3])

\* the only order constructed, a long order at 1 with nothing ahead of it,
\* has been through a Broker.step that left it as it was: the bid was
\* above its price
C20_Witness ==
    /\ last.op = "step"
    /\ ~last.long_fill
    /\ ~last.spilled
    /\ Order_id = 1
    /\ long_inventory.order # <<>>
    /\ long_inventory.order[1].price = RInt(1)
    /\ long_inventory.order[1].queue_ahead = 0
    /\ long_inventory.order[1].executed = 0
    /\ long_inventory.order[1].executions = <<>>

\* what get_queues_ahead_features is to return for the inventory inv: 0
\* without an active order, (max(executed, 0.0001) - queue) / (queue + lot
\* size) with one
expected_feature(inv) ==
    IF inv.order = <<>> THEN RZero
    ELSE LET o == inv.order[1]
             executions == IF o.executed = 0 THEN ExecutedFloor
                           ELSE RInt(o.executed)
         IN  RDiv(RSub(executions, RInt(o.queue_ahead)),
                  RInt(o.queue_ahead + Order_size))

\* C16: get_queues_ahead_features returns (0, 0) when neither side has an
\* active order; the divisor queue_ahead + lot size is positive for every
\* active order (queue_ahead >= 0), so the value is finite; for an order
\* with queue_ahead = 0 and executed = 0 the value is the floor 0.0001
\* divided by the lot size.
C16_QueueFeatures ==
    LET f == get_queues_ahead_features(long_inventory, short_inventory)
    IN  /\ (long_inventory.order = <<>> /\ short_inventory.order = <<>>)
               => f = <<RZero, RZero>>
        /\ f = <<expected_feature(long_inventory),
                 expected_feature(short_inventory)>>
        /\ \A o \in active_of(long_inventory)
                     \cup active_of(short_inventory) :
               /\ o.queue_ahead >= 0
               /\ queue_feature(o).divisor = RInt(o.queue_ahead + Order_size)
               /\ ~RLe(queue_feature(o).divisor, RZero)
               /\ (o.queue_ahead = 0 /\ o.executed = 0) =>
                      queue_feature(o).value
                          = RDiv(ExecutedFloor, RInt(Order_size))

\* get_queues_ahead_features has just been asked while a long order with
\* nothing ahead of it and nothing executed is active, and no short order:
\* it returned (0.0001 / 1000, 0)
C16_Witness ==
    /\ last.op = "get_queues_ahead_features"
    /\ long_inventory.order # <<>>
    /\ long_inventory.order[1].queue_ahead = 0
    /\ long_inventory.order[1].executed = 0
    /\ short_inventory.order = <<>>
    /\ last.features = <<<<1, 10000000>>, RZero>>

\* every order the broker holds, position by position and slot by slot
held_orders ==
    long_inventory.positions \o long_inventory.order
        \o short_inventory.positions \o short_inventory.order

\* no two orders held carry the same id, and every id was given out by
\* the counter
ids_distinct ==
    /\ \A i, j \in 1 .. Len(held_orders) :
           i # j => held_orders[i].id # held_orders[j].id
    /\ \A i \in 1 .. Len(held_orders) : held_orders[i].id \in 1 .. Order_id

\* in one call, the counter does not go down, an id that was not held
\* before is above every id given out before, and the order resting in a
\* slot (the same order: same creation step) does not lose id
ids_increase ==
    /\ Order_id' >= Order_id
    /\ \A o \in AllOrders' :
           o.id \notin {h.id : h \in AllOrders} => o.id > Order_id
    /\ \A side \in Sides :
           LET before == IF side = "long" THEN long_inventory.order
                         ELSE short_inventory.order
               after == IF side = "long" THEN long_inventory'.order
                        ELSE short_inventory'.order
           IN  (before # <<>> /\ after # <<>>
                   /\ before[1].step = after[1].step)
                   => after[1].id >= before[1].id

done_reported == env.done /\ ~env.raised

\* when done is reported both inventories hold no position
flat_when_done ==
    done_reported =>
        /\ position_count(long_inventory) = 0
        /\ position_count(short_inventory) = 0

\* an episode is running and its step index is within max_steps
running == ~env.done /\ ~env.raised
within_max_steps == env.local_step_number <= max_steps(env)

\* C18 as stated: for step_size >= 1 and action_repeats >= 1, every call
\* of step on a running episode returns with the step index raised, step
\* called again and again eventually returns done = True, and when done
\* is reported both inventories hold no position.
C18_Original ==
    /\ [](flat_when_done)
    /\ [][running =>
              /\ ~env'.raised
              /\ env'.local_step_number > env.local_step_number]_vars
    /\ (running ~> done_reported)

\* C18 as amended: the same for an episode whose step index is at most
\* max_steps when step is called (reset left at least
\* step_size * action_repeats + 1 rows of data after it): the call
\* returns, raises the index by step_size * action_repeats and reports
\* done exactly when the index is then above max_steps.  (Every step of
\* the environment is a call as StepCalled describes it.)
C18_Termination ==
    /\ [](flat_when_done)
    /\ [][StepCalled]_vars
    /\ [][(running /\ within_max_steps) =>
              /\ ~env'.raised
              /\ env'.local_step_number
                     = env.local_step_number
                         + env.step_size * env.action_repeats
              /\ env'.local_step_number > env.local_step_number
              /\ env'.done <=> env'.local_step_number > max_steps(env)]_vars
    /\ ((running /\ within_max_steps) ~> done_reported)

\* step has just reported done after more than one call, and the flatten
\* of that step or an earlier netting or flatten closed a long position
C18_Witness ==
    /\ last.op = "env_step"
    /\ last.ok
    /\ done_reported
    /\ env.local_step_number
           > env.warmup * env.step_size + env.step_size * env.action_repeats
    /\ long_inventory.total_trade_count > 0
    /\ position_count(long_inventory) = 0
    /\ position_count(short_inventory) = 0

\* the volume that PositionI.step executes on the order o beyond what was
\* executed before: the volume its side takes when it is marketable, less
\* the queue still ahead of it
executed_in_step(o, i) ==
    LET taken == volume_taken(o, i[1][1], i[1][2], i[2], i[3])
    IN  IF taken = <<>> THEN 0
        ELSE IF taken[1] > o.queue_ahead
        THEN taken[1] - (IF o.queue_ahead > 0 THEN o.queue_ahead ELSE 0)
        ELSE 0

\* C21: PositionI.step returns true exactly when the active order's
\* executed reaches the lot size in that step; the order is then the newest
\* position, with executed = lot size, the positions before it are as they
\* were and the slot is empty; otherwise the positions are unchanged and
\* an active order stays in the slot.  Hence in every state an active
\* order has executed < lot size and every position executed = lot size.
C21_FillLifecycle ==
    \A inv \in Inventories :
        /\ \A o \in active_of(inv) : o.executed < Order_size
        /\ \A p \in positions_of(inv) : p.executed = Order_size
        /\ \A i \in StepInputs :
               LET r == PositionI_step(inv, i[1][1], i[1][2], i[2], i[3])
                   reached ==
                       /\ inv.order # <<>>
                       /\ inv.order[1].executed
                              + executed_in_step(inv.order[1], i)
                              >= Order_size
               IN  /\ r.ret <=> reached
                   /\ r.ret =>
                          /\ Len(r.inv.positions) = Len(inv.positions) + 1
                          /\ SubSeq(r.inv.positions, 1, Len(inv.positions))
                                 = inv.positions
                          /\ r.inv.positions[Len(r.inv.positions)].id
                                 = inv.order[1].id
                          /\ r.inv.positions[Len(r.inv.positions)].executed
                                 = Order_size
                          /\ r.inv.order = <<>>
                   /\ ~r.ret =>
                          /\ r.inv.positions = inv.positions
                          /\ Len(r.inv.order) = Len(inv.order)
                          /\ \A o \in active_of(r.inv) :
                                 o.executed < Order_size

\* a step has filled the long order, which is now the one long position
\* and has left the slot, while the short order was executed in part and
\* stays active
C21_Witness ==
    /\ last.op = "step"
    /\ last.long_fill
    /\ ~last.short_fill
    /\ position_count(long_inventory) = 1
    /\ long_inventory.positions[1].executed = Order_size
    /\ long_inventory.order = <<>>
    /\ short_inventory.order # <<>>
    /\ short_inventory.order[1].executed > 0
    /\ short_inventory.order[1].executed < Order_size

\* the ids of the positions an inventory holds.  An order enters the slot
\* of an inventory only after the order before it has filled, and takes
\* the id of the newest order constructed, so the ids tell the order of
\* the fills.
position_ids(inv) == {p.id : p \in positions_of(inv)}

\* the positions of inv are in the order they were filled
in_fill_order(inv) ==
    \A k \in 1 .. Len(inv.positions) - 1 :
        inv.positions[k].id < inv.positions[k + 1].id

\* after holds the positions of before but the one with the given id, in
\* the same order
without_position(after, before, id) ==
    /\ Len(after.positions) = Len(before.positions) - 1
    /\ position_ids(after) = position_ids(before) \ {id}
    /\ in_fill_order(after)

\* the long positions a short netting closes a position of: the long
\* inventory as the long side of the step r left it
long_before_short_netting(r) ==
    IF r.long_popped = <<>> THEN r.long_stepped
    ELSE pop_position(r.long_stepped).inv

\* C22: the positions of an inventory are held in the order they were
\* filled; remove_position removes the oldest of them and books its PnL
\* (and so do the close of the opposite side in netting and
\* flatten_inventory, which makes one removal for each position held);
\* pop_position removes the most recently filled one;
\* the position popped during netting in Broker.step is the order that
\* filled in that step.
C22_RemovalOrder ==
    /\ \A inv \in Inventories :
           /\ in_fill_order(inv)
           /\ position_count(inv) > 0 =>
                  LET oldest == CHOOSE p \in positions_of(inv) :
                                    \A q \in positions_of(inv) : p.id <= q.id
                      newest == CHOOSE p \in positions_of(inv) :
                                    \A q \in positions_of(inv) : p.id >= q.id
                  IN  /\ \A midpoint \in Prices :
                             /\ without_position(
                                    remove_position(inv, midpoint).inv,
                                    inv, oldest.id)
                             /\ remove_position(inv, midpoint).ret
                                    = position_pnl(inv.side, oldest, midpoint)
                             /\ PositionI_flatten_inventory(inv, midpoint).n
                                    = position_count(inv)
                             /\ position_count(
                                    PositionI_flatten_inventory(
                                        inv, midpoint).inv) = 0
                      /\ pop_position(inv).ret = <<newest>>
                      /\ without_position(pop_position(inv).inv, inv,
                                          newest.id)
    /\ \A i \in StepInputs :
           LET r == step_with(i)
           IN  /\ r.long_popped # <<>> =>
                      /\ r.long_fill
                      /\ r.long_popped[1].id = long_inventory.order[1].id
                      /\ Head(short_inventory.positions).id
                             \notin position_ids(r.short)
                      /\ \A p \in positions_of(short_inventory) :
                             Head(short_inventory.positions).id <= p.id
               /\ r.short_popped # <<>> =>
                      /\ r.short_fill
                      /\ r.short_popped[1].id = short_inventory.order[1].id
                      /\ Head(long_before_short_netting(r).positions).id
                             \notin position_ids(r.long)
                      /\ \A p \in positions_of(long_before_short_netting(r)) :
                             Head(long_before_short_netting(r).positions).id
                                 <= p.id

\* remove_position has just been called on the long inventory holding the
\* positions of orders 1 and 2: the one left is the position of order 2
C22_Witness ==
    /\ last.op = "remove_position"
    /\ long_inventory.total_trade_count = 1
    /\ position_count(long_inventory) = 1
    /\ long_inventory.positions[1].id = 2

\* the number of nettings the step r made
nettings(r) ==
    (IF r.long_popped # <<>> THEN 1 ELSE 0)
        + (IF r.short_popped # <<>> THEN 1 ELSE 0)

\* one call of remove_position, pop_position, flatten_inventory or
\* Broker.step from the present state counts the trades and books the PnL
\* as C23 says
trades_counted_per_call ==
    /\ \A inv \in Inventories :
           /\ \A midpoint \in Prices :
                  LET r == remove_position(inv, midpoint)
                      f == PositionI_flatten_inventory(inv, midpoint)
                  IN  /\ r.inv.total_trade_count
                             = inv.total_trade_count
                                 + (IF position_count(inv) > 0 THEN 1 ELSE 0)
                      /\ position_count(r.inv)
                             = position_count(inv)
                                 - (IF position_count(inv) > 0 THEN 1 ELSE 0)
                      /\ f.inv.total_trade_count
                             = inv.total_trade_count + position_count(inv)
           /\ pop_position(inv).inv.total_trade_count = inv.total_trade_count
           /\ pop_position(inv).inv.realized_pnl = inv.realized_pnl
    /\ \A i \in StepInputs :
           LET r == step_with(i)
           IN  /\ get_total_trade_count(r.long, r.short)
                      = get_total_trade_count(long_inventory, short_inventory)
                          + nettings(r)
               /\ (r.long_popped # <<>> /\ r.short_popped = <<>>) =>
                      /\ r.long.realized_pnl = long_inventory.realized_pnl
                      /\ r.long.total_trade_count
                             = long_inventory.total_trade_count
                      /\ r.short.total_trade_count
                             = short_inventory.total_trade_count + 1
                      /\ r.short.realized_pnl
                             = RAdd(short_inventory.realized_pnl,
                                    RMul(r.ret, reward_scale))
               /\ (r.short_popped # <<>> /\ r.long_popped = <<>>) =>
                      /\ r.short.realized_pnl = short_inventory.realized_pnl
                      /\ r.short.total_trade_count
                             = short_inventory.total_trade_count
                      /\ r.long.total_trade_count
                             = long_inventory.total_trade_count + 1
                      /\ r.long.realized_pnl
                             = RAdd(long_inventory.realized_pnl,
                                    RMul(r.ret, reward_scale))

\* the number of positions that left an inventory in one call: those it
\* held before the call, and the order that filled in it, that it does not
\* hold after
positions_gone(before, after, filled) ==
    Cardinality((position_ids(before)
                     \cup (IF filled THEN {before.order[1].id} ELSE {}))
                    \ position_ids(after))

\* a call raises the trade count of an inventory by the number of
\* positions that left it other than by pop_position (popped of them),
\* unless the call was a reset, which sets the count to 0
trades_counted(before, after, op, filled, popped) ==
    IF op = "reset" THEN after.total_trade_count = 0
    ELSE /\ after.total_trade_count
                = before.total_trade_count
                    + positions_gone(before, after, filled) - popped
         /\ op = "pop_position" => after.realized_pnl = before.realized_pnl

\* the positions pop_position took from the long and from the short
\* inventory in the call that led from the present state to the state
\* where the call is recorded as done: a long fill is popped when the
\* short inventory holds a position, then a short fill when the long
\* inventory holds one
long_pops(done, long_after) ==
    IF done.op = "pop_position"
    THEN position_count(long_inventory) - position_count(long_after)
    ELSE IF done.op = "step" /\ done.long_fill
            /\ position_count(short_inventory) > 0
    THEN 1 ELSE 0

short_pops(done, long_after, short_after) ==
    IF done.op = "pop_position"
    THEN position_count(short_inventory) - position_count(short_after)
    ELSE IF done.op = "step" /\ done.short_fill
            /\ position_count(long_inventory)
                   + (IF done.long_fill THEN 1 ELSE 0)
                   - long_pops(done, long_after) > 0
    THEN 1 ELSE 0

C24_StepReturn ==
    \A i \in StepInputs :
        LET r == step_with(i)
        IN  /\ RMul(r.ret, reward_scale)
                   = RSub(get_realized_pnl(r.long, r.short),
                          get_realized_pnl(long_inventory, short_inventory))
            /\ nettings(r) = 0 => r.ret = RZero
            /\ (~r.long_fill /\ ~r.short_fill) => r.ret = RZero
            /\ (r.long_fill /\ ~r.short_fill
                    /\ position_count(short_inventory) = 0) => r.ret = RZero
            /\ (r.short_fill /\ ~r.long_fill
                    /\ position_count(long_inventory) = 0) => r.ret = RZero

\* a short fill at 1 has been netted against the long position bought at
\* 2: the step returned the loss (1 - 2) / 2 divided by reward_scale, all
\* the PnL the broker has realized
C24_Witness ==
    /\ last.op = "step"
    /\ last.short_fill
    /\ ~last.long_fill
    /\ last.ret.q = RDiv(<<-1, 2>>, reward_scale)
    /\ get_realized_pnl(long_inventory, short_inventory) = <<-1, 2>>
    /\ get_total_trade_count(long_inventory, short_inventory) = 1

\* both inventories hold no position and the step r fills the active
\* orders of both
simultaneous_fills(r) ==
    /\ position_count(long_inventory) = 0
    /\ position_count(short_inventory) = 0
    /\ r.long_fill
    /\ r.short_fill

flatten_result(inv, reference) ==
    IF position_count(inv) = 0 THEN EmptyFlatten
    ELSE Num(RSub(sum_pnl(inv.positions, inv.side, reference),
                  RMul(RInt(position_count(inv)), BROKER_FEE)))

\* C26: Broker.flatten_inventory(bid, ask) closes every long position at
\* bid and every short position at ask: afterwards both position counts
\* are 0, both active-order slots are as before, partial fills included,
\* and the value returned is the sum of the two sides' flatten results
\* divided by reward_scale, undivided only when that sum is exactly 0.
C26_BrokerFlatten ==
    \A q \in Quotes :
        LET r == Broker_flatten_inventory(long_inventory, short_inventory,
                                          q[1], q[2])
            total == NumAdd(flatten_result(long_inventory, q[1]),
                            flatten_result(short_inventory, q[2]))
        IN  /\ position_count(r.long) = 0
            /\ position_count(r.short) = 0
            /\ r.long.order = long_inventory.order
            /\ r.short.order = short_inventory.order
            /\ r.long_ret = flatten_result(long_inventory, q[1])
            /\ r.short_ret = flatten_result(short_inventory, q[2])
            /\ position_count(long_inventory) > 0 =>
                   r.long.realized_pnl
                       = RAdd(long_inventory.realized_pnl,
                              flatten_result(long_inventory, q[1]).q)
            /\ position_count(short_inventory) > 0 =>
                   r.short.realized_pnl
                       = RAdd(short_inventory.realized_pnl,
                              flatten_result(short_inventory, q[2]).q)
            /\ r.ret = IF total = NumZero THEN total
                       ELSE NumDiv(total, reward_scale)

\* Broker.flatten_inventory at bid 1 and ask 2 has just closed the short
\* position sold at 1, at a loss of (1 - 2) / 1 and a fee, and has left
\* the partly executed long order in its slot
C26_Witness ==
    /\ last.op = "flatten_inventory"
    /\ position_count(short_inventory) = 0
    /\ position_count(long_inventory) = 0
    /\ short_inventory.total_trade_count = 1
    /\ short_inventory.realized_pnl = RSub(RInt(-1), BROKER_FEE)
    /\ last.ret = NumDiv(NumAdd(Num(short_inventory.realized_pnl),
                                EmptyFlatten), reward_scale)
    /\ long_inventory.order # <<>>
    /\ long_inventory.order[1].executed > 0

\* the sum of the average execution prices of the positions
RECURSIVE sum_average_prices(_)
sum_average_prices(positions) ==
    IF positions = <<>> THEN RZero
    ELSE RAdd(Head(positions).average_exectution_price,
              sum_average_prices(Tail(positions)))

\* total_exposure and average_price of inv agree with the positions held
exposure_consistent(inv) ==
    /\ inv.total_exposure = sum_average_prices(inv.positions)
    /\ position_count(inv) > 0 =>
           inv.average_price
               = RDiv(inv.total_exposure, RInt(position_count(inv)))
    /\ position_count(inv) = 0 => inv.average_price = RZero

\* C27: in every reachable state of an inventory total_exposure is the
\* sum of the average execution prices of the positions it holds, and
\* average_price is total_exposure / position_count when position_count
\* > 0 and 0 when position_count = 0.  This is so between the calls, of
\* the inventories as their own step inside Broker.step leaves them, and
\* after a pop_position or remove_position from any reachable state.
C27_Exposure ==
    /\ \A inv \in Inventories :
           /\ exposure_consistent(inv)
           /\ exposure_consistent(pop_position(inv).inv)
           /\ \A midpoint \in Prices :
                  exposure_consistent(remove_position(inv, midpoint).inv)
    /\ \A i \in StepInputs :
           /\ exposure_consistent(step_with(i).long_stepped)
           /\ exposure_consistent(step_with(i).short_stepped)
           /\ exposure_consistent(step_with(i).long)
           /\ exposure_consistent(step_with(i).short)

\* pop_position has just taken the newer of two long positions: the
\* exposure and the average price are those of the position of order 1,
\* bought at 1, that is left
C27_Witness ==
    /\ last.op = "pop_position"
    /\ last.ok
    /\ position_count(long_inventory) = 1
    /\ long_inventory.positions[1].id = 1
    /\ long_inventory.positions[1].average_exectution_price = RInt(1)
    /\ Order_id = 2
    /\ long_inventory.total_exposure = RInt(1)
    /\ long_inventory.average_price = RInt(1)

\* remove_position(m) on inv books the value get_unrealized_pnl(m) reports
\* before it
realized_as_unrealized(inv, m) ==
    /\ remove_position(inv, m).ret = get_unrealized_pnl(inv, m)
    /\ remove_position(inv, m).inv.realized_pnl
           = RAdd(inv.realized_pnl, get_unrealized_pnl(inv, m))

\* the one position of inv was executed at the price its order has
filled_at_order_price(inv) ==
    inv.positions[1].average_exectution_price = inv.positions[1].price

\* C28 as stated: for an inventory holding exactly one position, reached
\* through any sequence of add, amend and step, the PnL remove_position(m)
\* books is the value get_unrealized_pnl(m) reported right before it.
C28_Original ==
    \A inv \in Inventories :
        position_count(inv) = 1 =>
            \A m \in Prices : realized_as_unrealized(inv, m)

\* C28 as amended: the same for a position whose average execution price
\* is the price of its order (all of it was executed at the price the
\* order has in the end).  When the order was amended to another price
\* between its fills, the two values differ for every m: realized PnL is
\* taken from the order's price, unrealized PnL from the average
\* execution price.
C28_RealizedUnrealized ==
    \A inv \in Inventories :
        position_count(inv) = 1 =>
            \A m \in Prices :
                realized_as_unrealized(inv, m) <=> filled_at_order_price(inv)

\* remove_position has just closed the one long position, which was held
\* at its order's price, at another price: the PnL it returned is all the
\* long side has realized
C28_Witness ==
    /\ last.op = "remove_position"
    /\ long_inventory.total_trade_count = 1
    /\ position_count(long_inventory) = 0
    /\ long_inventory.total_exposure = RZero
    /\ last.ret.q # RZero
    /\ last.ret.q = long_inventory.realized_pnl
    /\ Order_id = 1

\* an inventory whose full_inventory flag is set has no active order
full_without_order(inv) == inv.full_inventory => inv.order = <<>>

\* C29: for max_position >= 1, in every state reached through Broker.add,
\* Broker.step and Broker.flatten_inventory an inventory whose
\* full_inventory flag is set has an empty active-order slot, also as its
\* own step inside Broker.step leaves it; so an order fills only in an
\* inventory below its capacity, and position_count never passes
\* max_position.
C29_FullNoOrder ==
    /\ \A inv \in Inventories :
           /\ inv.max_position_count >= 1
           /\ full_without_order(inv)
           /\ \A i \in StepInputs :
                  LET r == PositionI_step(inv, i[1][1], i[1][2], i[2], i[3])
                  IN  r.ret =>
                          /\ ~inv.full_inventory
                          /\ position_count(inv) < inv.max_position_count
                          /\ position_count(r.inv) <= inv.max_position_count
    /\ \A i \in StepInputs :
           /\ full_without_order(step_with(i).long_stepped)
           /\ full_without_order(step_with(i).short_stepped)
           /\ full_without_order(step_with(i).long)
           /\ full_without_order(step_with(i).short)

\* a fill has just brought the long inventory to its capacity of 1: the
\* flag is set and the slot is empty, while the short order still rests
C29_Witness ==
    /\ last.op = "step"
    /\ last.long_fill
    /\ long_inventory.max_position_count = 1
    /\ position_count(long_inventory) = 1
    /\ long_inventory.full_inventory
    /\ long_inventory.order = <<>>
    /\ short_inventory.order # <<>>
    /\ ~short_inventory.full_inventory

====
